---- MODULE Spec2Model ----
(***************************************************************************)
(* k64_hal: the I2C bus-master driver (src/src/i2c.rs), the pin capability *)
(* system (src/src/gpio.rs) and the serial port (src/src/uart.rs), as      *)
(* state machines.                                                         *)
(*                                                                         *)
(* Spec     : the blocking write protocol of I2c<I2C0, (PE24, PE25)>       *)
(*            against the status flags of the I2C0 peripheral.             *)
(* SpecGpio : the pin mode transitions of the two I2C0 pins of bank E up   *)
(*            to and including the construction of the bus master.         *)
(* SpecPin  : digital output and input through typed and erased pin values *)
(*            of bank E, against the GPIOE data registers.                 *)
(* SpecBoot : split of the banks and I2c::new from any prior contents of   *)
(*            the I2C0 registers.                                          *)
(* SpecUart : construction of the UART0 serial port and read() against the *)
(*            receiver's status flags (src/src/uart.rs).                   *)
(***************************************************************************)
EXTENDS Integers, Sequences, FiniteSets, TLC

\* ---------------------------------------------------------------- bounds
\* Longest payload handed to write().
MaxLen == 2

\* ------------------------------------------------------ program constants
\* i2c_pins!: scl => porte::PE24, sda => porte::PE25, both AlternativeOD<AF5>.
SclPin == 24
SdaPin == 25
I2cAf == 5
\* The value into_af<N>_outputdrain writes to the whole pin control register.
OdPcrBits == 35

Pins == {SclPin, SdaPin}

\* Addresses and payload bytes the caller may pass (u8 values). 208 has its
\* top bit set, so address << 1 drops a bit.
Addresses == {80, 208}
\* Bus speeds the caller may pass to I2c::new (u32, in Hz).
Speeds == {100000, 400000}
ByteVals == {165, 60}
Payloads == UNION {[1..n -> ByteVals] : n \in 0..MaxLen}

VARIABLES
    regs,        \* I2C0 register block: C1 (iicen mst tx txak, c1etc = its other bits), S (tcf busy arbl iicif rxak),
                 \* FLT (startf stopf, fltcfg = its other bits), A1 (a1), F (mult icr), C2 (c2), RA (ra)
    xfer,        \* a byte is being clocked out on the bus
    pc,          \* position of the caller inside write()
    address,     \* arguments of the write() in progress (or of the last one)
    bytes,
    idx,         \* index of the payload byte of the for loop of write_bytes
    werr,        \* the error write_bytes holds while it runs its own stop_sequence
    result,      \* what the last write() returned
    dlog,        \* values written to the data register D during this write()
    startErr,    \* what start_sequence returned in this write()
    arblMark,    \* Len(dlog) when arbitration was lost in a poll loop after payload byte k, 1 <= k < n, else -1
    nackMark,    \* Len(dlog) when a payload byte was not acknowledged, else -1
    addrNack,    \* the address byte of this write() was not acknowledged
    arblSeen,    \* arbitration-lost was latched or raised during this write()
    nackSeen,    \* not-acknowledged was latched or raised during this write()
    sendEntered, \* send_byte was entered during this write()
    stopCleared, \* stop_sequence cleared MST/TX/TXAK during this write()
    prevResult,  \* what the write() before this one returned
    refused,     \* a byte was not acknowledged on the bus since this write() was called
    pollErr,     \* the first error the bus raised while this write() was in a poll loop with its awaited flag not yet set, else "none"
    pcr,         \* PORTE pin control registers, per pin
    pddr,        \* GPIOE data direction register
    tag,         \* compile-time mode tag of each pin value
    held,        \* who owns each pin value: "port" (not split), "caller", "i2c"
    gates,       \* SIM clock gates that are enabled: "porte" (SCGC5), "i2c0" (SCGC4)
    built,       \* I2c::new has returned
    pdor,        \* GPIOE data output register
    ext,         \* level the outside world puts on each pin when the pin does not drive it
    pinI,        \* per pin value: <<>> if typed, <<i>> with the bit index stored by downgrade()
    wrote,       \* per pin: the last level written through the pin value ("none" if never)
    uart,        \* UART0 register block: S1 (orf fe nf pf rdrf), D (d), C2 (te re), BDH (sbrh sbns), BDL (sbrl), C1 (pe pt m)
    ustat,       \* the serial port value: "none" (not constructed), "serial", "split" (Tx and Rx halves), "panicked"
    uout         \* the last UART operation and what it returned

callVars == <<prevResult, refused, pollErr>>
pinVars == <<pdor, ext, pinI, wrote>>
i2cVars == <<regs, xfer, pc, address, bytes, idx, werr, result, dlog, startErr,
             arblMark, nackMark, addrNack, arblSeen, nackSeen, sendEntered,
             stopCleared, prevResult, refused, pollErr>>
gpioVars == <<pcr, pddr, tag, held, gates, built, pdor, ext, pinI, wrote>>
uartVars == <<uart, ustat, uout>>
vars == <<regs, xfer, pc, address, bytes, idx, werr, result, dlog, startErr,
          arblMark, nackMark, addrNack, arblSeen, nackSeen, sendEntered,
          stopCleared, prevResult, refused, pollErr, pcr, pddr, tag, held, gates, built,
          pdor, ext, pinI, wrote, uart, ustat, uout>>

\* ------------------------------------------------------- register surface
\* Power-on value of the modelled fields: S = 0x80 (TCF), everything else 0.
PowerOnRegs ==
    [iicen |-> FALSE, mst |-> FALSE, tx |-> FALSE, txak |-> FALSE,
     tcf |-> TRUE, busy |-> FALSE, arbl |-> FALSE, iicif |-> FALSE,
     rxak |-> FALSE, startf |-> FALSE, stopf |-> FALSE,
     c1etc |-> 0, fltcfg |-> 0, a1 |-> 0, mult |-> 0, icr |-> 0, c2 |-> 0,
     ra |-> 0]

\* a1.reset(), f.reset(), c1.reset(), c2.reset(), ra.reset(): the register is
\* written with its reset value.
A1Reset(r) == [r EXCEPT !.a1 = PowerOnRegs.a1]
FReset(r) == [r EXCEPT !.mult = PowerOnRegs.mult, !.icr = PowerOnRegs.icr]
C1Reset(r) ==
    [r EXCEPT !.iicen = PowerOnRegs.iicen, !.mst = PowerOnRegs.mst,
              !.tx = PowerOnRegs.tx, !.txak = PowerOnRegs.txak,
              !.c1etc = PowerOnRegs.c1etc]
C2Reset(r) == [r EXCEPT !.c2 = PowerOnRegs.c2]
RaReset(r) == [r EXCEPT !.ra = PowerOnRegs.ra]

\* c1.modify(|_, w| w.iicen().clear_bit()) and .set_bit()
C1ClearIicen(r) == [r EXCEPT !.iicen = FALSE]
C1SetIicen(r) == [r EXCEPT !.iicen = TRUE]

\* s.modify(|_, w| w.<bits>().set_bit()): the value read, with the named bits
\* set, is written back. ARBL and IICIF are write-1-to-clear; TCF, BUSY and RXAK
\* are read-only.
SModify(r, bits) ==
    [r EXCEPT !.arbl = r.arbl /\ ~(r.arbl \/ "arbl" \in bits),
              !.iicif = r.iicif /\ ~(r.iicif \/ "iicif" \in bits)]

\* flt.modify(|_, w| w.<bits>().set_bit()): STARTF and STOPF are write-1-to-clear.
FltModify(r, bits) ==
    [r EXCEPT !.startf = r.startf /\ ~(r.startf \/ "startf" \in bits),
              !.stopf = r.stopf /\ ~(r.stopf \/ "stopf" \in bits)]

\* c1.modify setting MST: a 0 -> 1 change of MST generates a START, the bus
\* becomes busy and the start-detected flag is latched.
C1SetMaster(r) ==
    [r EXCEPT !.mst = TRUE, !.tx = TRUE,
              !.busy = r.busy \/ ~r.mst,
              !.startf = r.startf \/ ~r.mst]

\* A write to D while master and transmitting starts clocking the byte out.
StartsTransfer(r) == r.mst /\ r.tx

\* The shift done without the u8 width.
AddrByteNoWrap(a) == a * 2

\* (address << 1) | 0 on a u8.
AddrByte(a) == (a * 2) % 256

\* ------------------------------------------- check_and_clear_error_flags
\* The check without its RXAK branch.
CheckIgnoringNack(r) ==
    IF r.arbl
    THEN [err |-> "ARBITRATION", status |-> r, regs |-> SModify(r, {"arbl"})]
    ELSE [err |-> "none", status |-> r, regs |-> r]

\* The check without the write-1-to-clear of ARBL.
CheckNoClear(r) ==
    IF r.arbl THEN [err |-> "ARBITRATION", status |-> r, regs |-> r]
    ELSE IF r.rxak THEN [err |-> "NACK", status |-> r, regs |-> r]
    ELSE [err |-> "none", status |-> r, regs |-> r]

CheckAndClearErrorFlags(r) ==
    IF r.arbl
    THEN [err |-> "ARBITRATION", status |-> r, regs |-> SModify(r, {"arbl"})]
    ELSE IF r.rxak
    THEN [err |-> "NACK", status |-> r, regs |-> r]
    ELSE [err |-> "none", status |-> r,
          regs |-> LET a == IF r.startf THEN FltModify(r, {"startf"}) ELSE r
                   IN  IF r.stopf THEN FltModify(a, {"stopf"}) ELSE a]

\* ------------------------------------------------------------- i2c_init
\* The clock-divisor value set_baudrate writes.
IcrValue == 44

\* A set_baudrate that derives the divisor from the requested speed.
SetBaudrateFromSpeed(r, speed) == [r EXCEPT !.icr = (speed \div 10000) % 64]

\* set_baudrate: f.modify(|_, w| w.icr().bits(44)); the speed is not used.
SetBaudrate(r, speed) == [r EXCEPT !.icr = IcrValue]

\* The register block after each statement of i2c_init, in program order.
I2cInitStates(r, speed) ==
    LET s1 == C1ClearIicen(r)
        s2 == A1Reset(s1)
        s3 == FReset(s2)
        s4 == C1Reset(s3)
        s5 == SModify(s4, {"arbl", "iicif"})
        s6 == C2Reset(s5)
        s7 == FltModify(s6, {"startf", "stopf"})
        s8 == RaReset(s7)
        s9 == C1ClearIicen(s8)
        s10 == CheckAndClearErrorFlags(s9).regs
        s11 == SetBaudrate(s10, speed)
        s12 == C1SetIicen(s11)
    IN  <<s1, s2, s3, s4, s5, s6, s7, s8, s9, s10, s11, s12>>

I2cInit(r, speed) ==
    LET t == I2cInitStates(r, speed) IN t[Len(t)]

\* ------------------------------------------------------- Write::write
\* Where the for loop of write_bytes goes with loop index i: into send_byte
\* for byte i, or, past the last byte, out of write_bytes (which returns
\* Ok(())) and, through the ? of write, into stop_sequence.
\* A for loop that stops one byte short.
NextByteStopsShort(bs, i) == IF i < Len(bs) THEN "sb_wait_tcf" ELSE "st_check1"

NextByte(bs, i) == IF i <= Len(bs) THEN "sb_wait_tcf" ELSE "st_check1"

\* A write() that would drop the Result of its own stop_sequence as well.
WriteResultDropsStop(held_err, r) == IF held_err # "none" THEN held_err ELSE "Ok"

\* What write() hands back when stop_sequence returns r: write_bytes
\* discards the result of the stop_sequence it runs itself and returns the
\* error it holds; write returns the result of its own stop_sequence.
WriteResult(held_err, r) == IF held_err # "none" THEN held_err ELSE r

Return(r) ==
    /\ pc' = "idle"
    /\ result' = WriteResult(werr, r)

Call(a, bs) ==
    /\ pc = "idle"
    /\ pc' = "ss_check1"
    /\ address' = a
    /\ bytes' = bs
    /\ idx' = 1
    /\ werr' = "none"
    /\ dlog' = <<>>
    /\ startErr' = "none"
    /\ arblMark' = -1
    /\ nackMark' = -1
    /\ addrNack' = FALSE
    /\ arblSeen' = regs.arbl
    /\ nackSeen' = regs.rxak
    /\ sendEntered' = FALSE
    /\ stopCleared' = FALSE
    /\ prevResult' = result
    /\ refused' = FALSE
    /\ pollErr' = "none"
    /\ UNCHANGED <<regs, xfer, result>>
    /\ UNCHANGED gpioVars
    /\ UNCHANGED uartVars

\* start_sequence, line 156: self.check_and_clear_error_flags()?
\* write_bytes drops the Result of start_sequence and goes on at line 181.
StartCheck1 ==
    /\ pc = "ss_check1"
    /\ LET c == CheckAndClearErrorFlags(regs) IN
         /\ regs' = c.regs
         /\ startErr' = c.err
         /\ pc' = IF c.err # "none" THEN "wb_check" ELSE "ss_wait_tcf"
    /\ UNCHANGED <<xfer, address, bytes, idx, werr, result, dlog, arblMark,
                   nackMark, addrNack, arblSeen, nackSeen, sendEntered, stopCleared>>
    /\ UNCHANGED callVars
    /\ UNCHANGED gpioVars
    /\ UNCHANGED uartVars

\* start_sequence, lines 157-159: spin while TCF is clear.
StartWaitTcf ==
    /\ pc = "ss_wait_tcf"
    /\ regs.tcf
    /\ pc' = "ss_check2"
    /\ UNCHANGED <<regs, xfer, address, bytes, idx, werr, result, dlog, startErr,
                   arblMark, nackMark, addrNack, arblSeen, nackSeen, sendEntered,
                   stopCleared>>
    /\ UNCHANGED callVars
    /\ UNCHANGED gpioVars
    /\ UNCHANGED uartVars

\* start_sequence, line 160.
StartCheck2 ==
    /\ pc = "ss_check2"
    /\ LET c == CheckAndClearErrorFlags(regs) IN
         /\ regs' = c.regs
         /\ startErr' = c.err
         /\ pc' = IF c.err # "none" THEN "wb_check" ELSE "ss_master"
    /\ UNCHANGED <<xfer, address, bytes, idx, werr, result, dlog, arblMark,
                   nackMark, addrNack, arblSeen, nackSeen, sendEntered, stopCleared>>
    /\ UNCHANGED callVars
    /\ UNCHANGED gpioVars
    /\ UNCHANGED uartVars

\* start_sequence, line 161: c1.modify(mst().set_bit().tx().set_bit()).
StartSetMaster ==
    /\ pc = "ss_master"
    /\ regs' = C1SetMaster(regs)
    /\ pc' = "ss_addr"
    /\ UNCHANGED <<xfer, address, bytes, idx, werr, result, dlog, startErr,
                   arblMark, nackMark, addrNack, arblSeen, nackSeen, sendEntered,
                   stopCleared>>
    /\ UNCHANGED callVars
    /\ UNCHANGED gpioVars
    /\ UNCHANGED uartVars

\* start_sequence, line 162: d.modify(bits((address << 1) | 0)); returns Ok.
StartWriteAddr ==
    /\ pc = "ss_addr"
    /\ dlog' = Append(dlog, AddrByte(address))
    /\ xfer' = (xfer \/ StartsTransfer(regs))
    /\ regs' = [regs EXCEPT !.tcf = regs.tcf /\ ~StartsTransfer(regs)]
    /\ pc' = "wb_check"
    /\ UNCHANGED <<address, bytes, idx, werr, result, startErr, arblMark,
                   nackMark, addrNack, arblSeen, nackSeen, sendEntered, stopCleared>>
    /\ UNCHANGED callVars
    /\ UNCHANGED gpioVars
    /\ UNCHANGED uartVars

\* write_bytes, lines 181-184: on an error run stop_sequence and return it.
WbCheck ==
    /\ pc = "wb_check"
    /\ LET c == CheckAndClearErrorFlags(regs) IN
         /\ regs' = c.regs
         /\ werr' = c.err
         /\ pc' = IF c.err # "none" THEN "st_check1" ELSE "wb_wait_iicif"
    /\ UNCHANGED <<xfer, address, bytes, idx, result, dlog, startErr, arblMark,
                   nackMark, addrNack, arblSeen, nackSeen, sendEntered, stopCleared>>
    /\ UNCHANGED callVars
    /\ UNCHANGED gpioVars
    /\ UNCHANGED uartVars

\* write_bytes, lines 186-188: spin while IICIF is clear; then the for loop.
WbWaitIicif ==
    /\ pc = "wb_wait_iicif"
    /\ regs.iicif
    /\ idx' = 1
    /\ pc' = NextByte(bytes, 1)
    /\ sendEntered' = (NextByte(bytes, 1) = "sb_wait_tcf")
    /\ UNCHANGED <<regs, xfer, address, bytes, werr, result, dlog, startErr,
                   arblMark, nackMark, addrNack, arblSeen, nackSeen, stopCleared>>
    /\ UNCHANGED callVars
    /\ UNCHANGED gpioVars
    /\ UNCHANGED uartVars

\* send_byte, lines 198-201: each iteration checks the flags, then TCF.
\* An Err leaves send_byte; write_bytes drops it and takes the next byte.
SbWaitTcf ==
    /\ pc = "sb_wait_tcf"
    /\ LET c == CheckAndClearErrorFlags(regs) IN
         /\ regs' = c.regs
         /\ idx' = IF c.err # "none" THEN idx + 1 ELSE idx
         /\ pc' = IF c.err # "none" THEN NextByte(bytes, idx + 1)
                  ELSE IF c.status.tcf THEN "sb_clear1" ELSE "sb_wait_tcf"
    /\ UNCHANGED <<xfer, address, bytes, werr, result, dlog, startErr, arblMark,
                   nackMark, addrNack, arblSeen, nackSeen, sendEntered, stopCleared>>
    /\ UNCHANGED callVars
    /\ UNCHANGED gpioVars
    /\ UNCHANGED uartVars

\* send_byte, line 202: s.modify(iicif().set_bit()).
SbClear1 ==
    /\ pc = "sb_clear1"
    /\ regs' = SModify(regs, {"iicif"})
    /\ pc' = "sb_tx"
    /\ UNCHANGED <<xfer, address, bytes, idx, werr, result, dlog, startErr,
                   arblMark, nackMark, addrNack, arblSeen, nackSeen, sendEntered,
                   stopCleared>>
    /\ UNCHANGED callVars
    /\ UNCHANGED gpioVars
    /\ UNCHANGED uartVars

\* send_byte, line 203: c1.modify(tx().set_bit()).
SbSetTx ==
    /\ pc = "sb_tx"
    /\ regs' = [regs EXCEPT !.tx = TRUE]
    /\ pc' = "sb_data"
    /\ UNCHANGED <<xfer, address, bytes, idx, werr, result, dlog, startErr,
                   arblMark, nackMark, addrNack, arblSeen, nackSeen, sendEntered,
                   stopCleared>>
    /\ UNCHANGED callVars
    /\ UNCHANGED gpioVars
    /\ UNCHANGED uartVars

\* send_byte, line 205: d.modify(data().bits(byte)).
SbWriteData ==
    /\ pc = "sb_data"
    /\ dlog' = Append(dlog, bytes[idx])
    /\ xfer' = (xfer \/ StartsTransfer(regs))
    /\ regs' = [regs EXCEPT !.tcf = regs.tcf /\ ~StartsTransfer(regs)]
    /\ pc' = "sb_wait_iicif"
    /\ UNCHANGED <<address, bytes, idx, werr, result, startErr, arblMark,
                   nackMark, addrNack, arblSeen, nackSeen, sendEntered, stopCleared>>
    /\ UNCHANGED callVars
    /\ UNCHANGED gpioVars
    /\ UNCHANGED uartVars

\* send_byte, lines 207-209: each iteration checks the flags, then IICIF.
SbWaitIicif ==
    /\ pc = "sb_wait_iicif"
    /\ LET c == CheckAndClearErrorFlags(regs) IN
         /\ regs' = c.regs
         /\ idx' = IF c.err # "none" THEN idx + 1 ELSE idx
         /\ pc' = IF c.err # "none" THEN NextByte(bytes, idx + 1)
                  ELSE IF c.status.iicif THEN "sb_clear2" ELSE "sb_wait_iicif"
    /\ UNCHANGED <<xfer, address, bytes, werr, result, dlog, startErr, arblMark,
                   nackMark, addrNack, arblSeen, nackSeen, sendEntered, stopCleared>>
    /\ UNCHANGED callVars
    /\ UNCHANGED gpioVars
    /\ UNCHANGED uartVars

\* send_byte, lines 210-212: s.modify(iicif().set_bit()); Ok(()).
SbClear2 ==
    /\ pc = "sb_clear2"
    /\ regs' = SModify(regs, {"iicif"})
    /\ idx' = idx + 1
    /\ pc' = NextByte(bytes, idx + 1)
    /\ UNCHANGED <<xfer, address, bytes, werr, result, dlog, startErr, arblMark,
                   nackMark, addrNack, arblSeen, nackSeen, sendEntered, stopCleared>>
    /\ UNCHANGED callVars
    /\ UNCHANGED gpioVars
    /\ UNCHANGED uartVars

\* stop_sequence, line 167: self.check_and_clear_error_flags()?
StopCheck1 ==
    /\ pc = "st_check1"
    /\ LET c == CheckAndClearErrorFlags(regs) IN
         /\ regs' = c.regs
         /\ IF c.err # "none"
            THEN Return(c.err)
            ELSE pc' = "st_clear" /\ UNCHANGED result
    /\ UNCHANGED <<xfer, address, bytes, idx, werr, dlog, startErr, arblMark,
                   nackMark, addrNack, arblSeen, nackSeen, sendEntered, stopCleared>>
    /\ UNCHANGED callVars
    /\ UNCHANGED gpioVars
    /\ UNCHANGED uartVars

\* stop_sequence, lines 168-170: clear MST, TX, TXAK (a 1 -> 0 change of MST
\* generates a STOP).
StopClear ==
    /\ pc = "st_clear"
    /\ regs' = [regs EXCEPT !.mst = FALSE, !.tx = FALSE, !.txak = FALSE]
    /\ stopCleared' = TRUE
    /\ pc' = "st_wait_busy"
    /\ UNCHANGED <<xfer, address, bytes, idx, werr, result, dlog, startErr,
                   arblMark, nackMark, addrNack, arblSeen, nackSeen, sendEntered>>
    /\ UNCHANGED callVars
    /\ UNCHANGED gpioVars
    /\ UNCHANGED uartVars

\* stop_sequence, lines 172-176: each iteration checks the flags, then BUSY.
StopWaitBusy ==
    /\ pc = "st_wait_busy"
    /\ LET c == CheckAndClearErrorFlags(regs) IN
         /\ regs' = c.regs
         /\ IF c.err # "none"
            THEN Return(c.err)
            ELSE IF c.status.busy
                 THEN UNCHANGED <<pc, result>>
                 ELSE Return("Ok")
    /\ UNCHANGED <<xfer, address, bytes, idx, werr, dlog, startErr, arblMark,
                   nackMark, addrNack, arblSeen, nackSeen, sendEntered, stopCleared>>
    /\ UNCHANGED callVars
    /\ UNCHANGED gpioVars
    /\ UNCHANGED uartVars

\* ------------------------------------------------- the I2C0 peripheral
PayloadPcs == {"sb_wait_tcf", "sb_clear1", "sb_tx", "sb_data", "sb_wait_iicif", "sb_clear2"}

\* The two poll loops of send_byte: the next step of the caller is a status check.
PollPcs == {"sb_wait_tcf", "sb_wait_iicif"}

\* Payload bytes written to D so far by the for loop.
BytesDone == IF pc \in {"sb_wait_iicif", "sb_clear2"} THEN idx ELSE idx - 1

FirstError == pc # "idle" /\ ~arblSeen /\ ~nackSeen

\* The caller is inside one of the five poll loops of write() and the flag
\* that loop waits for has not changed yet.
Waiting ==
    \/ pc \in {"ss_wait_tcf", "sb_wait_tcf"} /\ ~regs.tcf
    \/ pc \in {"wb_wait_iicif", "sb_wait_iicif"} /\ ~regs.iicif
    \/ pc = "st_wait_busy" /\ regs.busy

\* The ninth clock of a byte: TCF and IICIF are set, RXAK takes the
\* acknowledge bit the receiver drove (0 = acknowledged).
HwTransferComplete(ack) ==
    /\ xfer
    /\ xfer' = FALSE
    /\ regs' = [regs EXCEPT !.tcf = TRUE, !.iicif = TRUE, !.rxak = ~ack]
    /\ nackSeen' = (nackSeen \/ (pc # "idle" /\ ~ack))
    /\ addrNack' = (addrNack \/ (FirstError /\ ~ack /\ Len(dlog) = 1))
    /\ nackMark' = IF /\ FirstError /\ ~ack /\ nackMark = -1
                      /\ pc = "sb_wait_iicif" /\ idx < Len(bytes)
                   THEN Len(dlog) ELSE nackMark
    /\ refused' = (refused \/ ~ack)
    /\ pollErr' = IF pollErr = "none" /\ Waiting /\ ~ack THEN "NACK" ELSE pollErr
    /\ UNCHANGED <<pc, address, bytes, idx, werr, result, dlog, startErr,
                   arblMark, arblSeen, sendEntered, stopCleared, prevResult>>
    /\ UNCHANGED gpioVars
    /\ UNCHANGED uartVars

\* The master loses arbitration to another master: ARBL and IICIF are latched
\* and the peripheral falls back to slave mode (MST is cleared by hardware).
HwArbitrationLost ==
    /\ regs.mst /\ ~regs.arbl
    /\ regs' = [regs EXCEPT !.arbl = TRUE, !.iicif = TRUE, !.mst = FALSE]
    /\ arblSeen' = (arblSeen \/ pc # "idle")
    /\ arblMark' = IF /\ FirstError /\ arblMark = -1
                      /\ pc \in PollPcs /\ 1 <= BytesDone /\ BytesDone < Len(bytes)
                   THEN Len(dlog) ELSE arblMark
    /\ pollErr' = IF pollErr = "none" /\ Waiting THEN "ARBITRATION" ELSE pollErr
    /\ UNCHANGED <<xfer, pc, address, bytes, idx, werr, result, dlog, startErr,
                   nackMark, addrNack, nackSeen, sendEntered, stopCleared,
                   prevResult, refused>>
    /\ UNCHANGED gpioVars
    /\ UNCHANGED uartVars

\* A STOP is seen on the bus once no master holds it: BUSY clears and the
\* stop-detected flag is latched.
HwStop ==
    /\ regs.busy /\ ~regs.mst /\ ~xfer
    /\ regs' = [regs EXCEPT !.busy = FALSE, !.stopf = TRUE]
    /\ UNCHANGED <<xfer, pc, address, bytes, idx, werr, result, dlog, startErr,
                   arblMark, nackMark, addrNack, arblSeen, nackSeen, sendEntered,
                   stopCleared>>
    /\ UNCHANGED callVars
    /\ UNCHANGED gpioVars
    /\ UNCHANGED uartVars

\* ------------------------------------------------------------ pin control
\* Fields of a pin control register value (PORTx_PCRn).
Mux(v) == (v \div 256) % 8
Ode(v) == (v \div 32) % 2 = 1
NonMux(v) == v - Mux(v) * 256
\* Bit i of a 32-bit register value.
Bit(v, i) == (v \div (2 ^ i)) % 2

\* A field write that can only set bits of the MUX field.
MuxBitsOr(v, mode) ==
    LET or(a, b) == IF a + b > 0 THEN 1 ELSE 0
        m == Mux(v)
    IN  NonMux(v) + 256 * (or(Bit(m, 0), Bit(mode, 0)) + 2 * or(Bit(m, 1), Bit(mode, 1))
                           + 4 * or(Bit(m, 2), Bit(mode, 2)))

\* pcr.modify(|_, w| w.mux().bits(mode)): only the 3-bit MUX field changes.
MuxBits(v, mode) == NonMux(v) + (mode % 8) * 256

\* pcr.modify(|_, w| w.bits(b)): the whole register takes the value b.
WriteBits(v, b) == b

\* A whole-register write of the function code, losing the other fields.
SetAlternateFunctionWhole(v, mode) == WriteBits(v, (mode % 8) * 256)

\* _set_alternate_function(mode)
SetAlternateFunction(v, mode) == MuxBits(v, mode)

\* The register effect of into_af<N>_outputdrain: _set_alternate_function(N),
\* then pcr.modify(|_, w| w.bits(0x23)).
AfOutputDrainPcr(v, n) == WriteBits(SetAlternateFunction(v, n), OdPcrBits)

\* gpio.pddr.modify(|_, w| w.bits(1 << i))
OutputPddr(v, i) == WriteBits(v, 2 ^ i)

AfName(n) == <<"AF", n>>
InputFloating == [kind |-> "Input", arg |-> <<"Floating">>]
OutputFloating == [kind |-> "Output", arg |-> <<"Floating">>]
OutputOpenDrain == [kind |-> "Output", arg |-> <<"OpenDrain">>]
Alternative(n) == [kind |-> "Alternative", arg |-> AfName(n)]
AlternativeOD(n) == [kind |-> "AlternativeOD", arg |-> AfName(n)]

\* A clock gate written to the whole gating register.
SetGateOnly(g, b) == {b}

\* sim.scgc5.modify(|_, w| w.<bank>().set_bit()): the bank's gate bit is set,
\* the other bits are written back as read.
SetGate(g, b) == g \cup {b}

\* Every pin operation takes the pin value by move: only a pin the caller
\* holds can be operated on.
Owned(p) == held[p] = "caller"
Typed(p) == pinI[p] = <<>>
Holds(p) == Owned(p) /\ Typed(p)

\* The rows of the PORTE table of gpio!: PE0 .. PE31, bit indices 0 .. 31.
PortEPins == 0..31

\* Parts { $pxi: $PXi { _mode: PhantomData } } with every row's default mode.
SplitParts == [p \in PortEPins |-> InputFloating]

\* GpioExt::split for PORTE: enables the bank's clock gate and yields every
\* pin as Input<Floating>. It consumes the PORTE singleton.
Split ==
    /\ \A p \in Pins : held[p] = "port"
    /\ gates' = SetGate(gates, "porte")
    /\ held' = [p \in Pins |-> "caller"]
    /\ tag' = [p \in Pins |-> SplitParts[p]]
    /\ UNCHANGED <<pcr, pddr, built>>
    /\ UNCHANGED pinVars
    /\ UNCHANGED i2cVars
    /\ UNCHANGED uartVars

Enable(p) ==
    /\ Holds(p)
    /\ pcr' = [pcr EXCEPT ![p] = SetAlternateFunction(pcr[p], 1)]
    /\ UNCHANGED <<pddr, tag, held, gates, built>>
    /\ UNCHANGED pinVars
    /\ UNCHANGED i2cVars
    /\ UNCHANGED uartVars

Disable(p) ==
    /\ Holds(p)
    /\ pcr' = [pcr EXCEPT ![p] = SetAlternateFunction(pcr[p], 0)]
    /\ UNCHANGED <<pddr, tag, held, gates, built>>
    /\ UNCHANGED pinVars
    /\ UNCHANGED i2cVars
    /\ UNCHANGED uartVars

\* into_alternate_af0 .. into_alternate_af7
IntoAlternate(p, n) ==
    /\ Holds(p)
    /\ pcr' = [pcr EXCEPT ![p] = SetAlternateFunction(pcr[p], n)]
    /\ tag' = [tag EXCEPT ![p] = Alternative(n)]
    /\ UNCHANGED <<pddr, held, gates, built>>
    /\ UNCHANGED pinVars
    /\ UNCHANGED i2cVars
    /\ UNCHANGED uartVars

\* into_af0_outputdrain .. into_af6_outputdrain
IntoAfOutputDrain(p, n) ==
    /\ Holds(p)
    /\ pcr' = [pcr EXCEPT ![p] = AfOutputDrainPcr(pcr[p], n)]
    /\ tag' = [tag EXCEPT ![p] = AlternativeOD(n)]
    /\ UNCHANGED <<pddr, held, gates, built>>
    /\ UNCHANGED pinVars
    /\ UNCHANGED i2cVars
    /\ UNCHANGED uartVars

IntoOutput(p) ==
    /\ Holds(p)
    /\ pddr' = OutputPddr(pddr, p)
    /\ tag' = [tag EXCEPT ![p] = OutputFloating]
    /\ UNCHANGED <<pcr, held, gates, built>>
    /\ UNCHANGED pinVars
    /\ UNCHANGED i2cVars
    /\ UNCHANGED uartVars

\* into_open_drain touches no register.
IntoOpenDrain(p) ==
    /\ Holds(p)
    /\ tag' = [tag EXCEPT ![p] = OutputOpenDrain]
    /\ UNCHANGED <<pcr, pddr, held, gates, built>>
    /\ UNCHANGED pinVars
    /\ UNCHANGED i2cVars
    /\ UNCHANGED uartVars

\* The pin pair I2c::new accepts for I2C0 (Pins<I2C0> for (SCL, SDA)).
PinsForI2c0 ==
    /\ Holds(SclPin) /\ tag[SclPin] = AlternativeOD(I2cAf)
    /\ Holds(SdaPin) /\ tag[SdaPin] = AlternativeOD(I2cAf)

\* I2c::new: enable_clock, take the pins, i2c_init.
I2cNew(speed) ==
    /\ ~built
    /\ PinsForI2c0
    /\ gates' = SetGate(gates, "i2c0")
    /\ held' = [p \in Pins |-> "i2c"]
    /\ regs' = I2cInit(regs, speed)
    /\ built' = TRUE
    /\ UNCHANGED <<pcr, pddr, tag>>
    /\ UNCHANGED <<xfer, pc, address, bytes, idx, werr, result, dlog, startErr,
                   arblMark, nackMark, addrNack, arblSeen, nackSeen, sendEntered,
                   stopCleared>>
    /\ UNCHANGED callVars
    /\ UNCHANGED pinVars
    /\ UNCHANGED uartVars

\* ------------------------------------------------------- digital pin I/O
\* 1 << pos and bits >> pos on u32. The bit indices of a bank are 0..31, so
\* the shift never drops the bit.
OneShl(pos) == 2 ^ pos
Shr(v, pos) == v \div (2 ^ pos)

\* GpioRegExt::is_low(pos): (self.pdir.read().bits() >> pos) == 0
IsLow(pdirv, pos) == Shr(pdirv, pos) = 0

\* GpioRegExt::is_set_low(pos): (self.pdir.read().bits() >> pos) == 0
IsSetLow(pdirv, pos) == Shr(pdirv, pos) = 0

\* is_high / is_set_high: self.is_low().map(|v| !v), self.is_set_low().map(|v| !v)
IsHigh(pdirv, pos) == ~IsLow(pdirv, pos)
IsSetHigh(pdirv, pos) == ~IsSetLow(pdirv, pos)

\* A store of 1 << pos to the data output register itself.
PdorOverwrite(v, pos) == WriteBits(v, OneShl(pos))

\* A store of 1 << pos to the toggle register.
PdorToggle(v, pos) == IF Bit(v, pos) = 1 THEN v - OneShl(pos) ELSE v + OneShl(pos)

\* GpioRegExt::set_high(pos): psor.write(|w| w.bits(1 << pos)). A 1 written
\* to bit n of PSOR sets bit n of the data output register, a 0 leaves it.
GpioSetHigh(v, pos) == IF Bit(v, pos) = 1 THEN v ELSE v + OneShl(pos)

\* GpioRegExt::set_low(pos): pcor.write(|w| w.bits(1 << pos)). A 1 written
\* to bit n of PCOR clears bit n of the data output register.
GpioSetLow(v, pos) == IF Bit(v, pos) = 1 THEN v - OneShl(pos) ELSE v

\* The logic level on pin p: what the pin drives when its direction bit is
\* set (an open-drain pin only drives low), else what the outside applies.
PinLevel(p) ==
    IF Bit(pddr, p) = 1
    THEN IF Ode(pcr[p]) /\ Bit(pdor, p) = 1 THEN ext[p] ELSE Bit(pdor, p) = 1
    ELSE ext[p]

\* The data input register of the bank: bit p is the level on pin p.
Pdir ==
    (IF PinLevel(SclPin) THEN OneShl(SclPin) ELSE 0)
    + (IF PinLevel(SdaPin) THEN OneShl(SdaPin) ELSE 0)

\* The bit index a pin value passes to the bank operations: $i for a typed
\* pin, the stored field i for an erased one.
PinIndex(p) == IF Typed(p) THEN p ELSE pinI[p][1]

\* A stored index that is one off the pin's own.
ErasedIndexNext(i) == (i + 1) % 32

\* The field i of the erased value downgrade() builds: i: $i.
ErasedIndex(i) == i

\* downgrade(): Pin { i: $i, port: GPIOX::ptr(), _mode }. One way.
Downgrade(p) ==
    /\ Holds(p)
    /\ tag[p].kind \in {"Input", "Output"}
    /\ pinI' = [pinI EXCEPT ![p] = <<ErasedIndex(p)>>]
    /\ UNCHANGED <<pcr, pddr, tag, held, gates, built, pdor, ext, wrote>>
    /\ UNCHANGED i2cVars
    /\ UNCHANGED uartVars

\* OutputPin::set_high on a typed or erased Output pin.
SetHigh(p) ==
    /\ Owned(p)
    /\ tag[p].kind = "Output"
    /\ pdor' = GpioSetHigh(pdor, PinIndex(p))
    /\ wrote' = [wrote EXCEPT ![p] = IF @ \in {"high", "high_again"}
                                     THEN "high_again" ELSE "high"]
    /\ UNCHANGED <<pcr, pddr, tag, held, gates, built, ext, pinI>>
    /\ UNCHANGED i2cVars
    /\ UNCHANGED uartVars

\* OutputPin::set_low on a typed or erased Output pin.
SetLow(p) ==
    /\ Owned(p)
    /\ tag[p].kind = "Output"
    /\ pdor' = GpioSetLow(pdor, PinIndex(p))
    /\ wrote' = [wrote EXCEPT ![p] = "low"]
    /\ UNCHANGED <<pcr, pddr, tag, held, gates, built, ext, pinI>>
    /\ UNCHANGED i2cVars
    /\ UNCHANGED uartVars

\* The outside world changes the level it applies to pin p.
ExtLevel(p, l) ==
    /\ ext[p] # l
    /\ ext' = [ext EXCEPT ![p] = l]
    /\ UNCHANGED <<pcr, pddr, tag, held, gates, built, pdor, pinI, wrote>>
    /\ UNCHANGED i2cVars
    /\ UNCHANGED uartVars

\* No write() in progress and none made yet.
NoCall ==
    /\ xfer = FALSE
    /\ pc = "idle"
    /\ address = 80
    /\ bytes = <<>>
    /\ idx = 1
    /\ werr = "none"
    /\ result = "none"
    /\ dlog = <<>>
    /\ startErr = "none"
    /\ arblMark = -1
    /\ nackMark = -1
    /\ addrNack = FALSE
    /\ arblSeen = FALSE
    /\ nackSeen = FALSE
    /\ sendEntered = FALSE
    /\ stopCleared = FALSE
    /\ prevResult = "none"
    /\ refused = FALSE
    /\ pollErr = "none"

\* No pin value downgraded, nothing written to the data output register
\* (reset value 0), every pin pulled low from outside.
NoPinIo ==
    /\ pdor = 0
    /\ ext = [p \in Pins |-> FALSE]
    /\ pinI = [p \in Pins |-> <<>>]
    /\ wrote = [p \in Pins |-> "none"]

\* Reset values of the modelled UART0 fields (BDL resets to 4).
PowerOnUart ==
    [orf |-> FALSE, fe |-> FALSE, nf |-> FALSE, pf |-> FALSE, rdrf |-> FALSE,
     d |-> 0, te |-> FALSE, re |-> FALSE, sbrh |-> 0, sbns |-> FALSE,
     sbrl |-> 4, pe |-> FALSE, pt |-> FALSE, m |-> FALSE]

\* UART0 at its reset values, no serial port constructed.
NoUart ==
    /\ uart = PowerOnUart
    /\ ustat = "none"
    /\ uout = [op |-> "none", res |-> "none", val |-> 0]

\* Power-on: PORTE not split, pin control registers at their reset value.
InitGpio ==
    /\ NoCall
    /\ NoPinIo
    /\ NoUart
    /\ regs = PowerOnRegs
    /\ pcr = [p \in Pins |-> 0]
    /\ pddr = 0
    /\ tag = [p \in Pins |-> InputFloating]
    /\ held = [p \in Pins |-> "port"]
    /\ gates = {}
    /\ built = FALSE

\* The state right after split, into_af5_outputdrain on PE24 and PE25, and
\* I2c::new.
Init ==
    /\ NoCall
    /\ NoPinIo
    /\ NoUart
    /\ \E speed \in Speeds : regs = I2cInit(PowerOnRegs, speed)
    /\ pcr = [p \in Pins |-> AfOutputDrainPcr(0, I2cAf)]
    /\ pddr = 0
    /\ tag = [p \in Pins |-> AlternativeOD(I2cAf)]
    /\ held = [p \in Pins |-> "i2c"]
    /\ gates = {"porte", "i2c0"}
    /\ built = TRUE

Next ==
    \/ \E a \in Addresses, bs \in Payloads : Call(a, bs)
    \/ StartCheck1
    \/ StartWaitTcf
    \/ StartCheck2
    \/ StartSetMaster
    \/ StartWriteAddr
    \/ WbCheck
    \/ WbWaitIicif
    \/ SbWaitTcf
    \/ SbClear1
    \/ SbSetTx
    \/ SbWriteData
    \/ SbWaitIicif
    \/ SbClear2
    \/ StopCheck1
    \/ StopClear
    \/ StopWaitBusy
    \/ \E ack \in BOOLEAN : HwTransferComplete(ack)
    \/ HwArbitrationLost
    \/ HwStop

Spec == Init /\ [][Next]_vars

NextGpio ==
    \/ Split
    \/ \E p \in Pins : Enable(p)
    \/ \E p \in Pins : Disable(p)
    \/ \E p \in Pins, n \in 0..7 : IntoAlternate(p, n)
    \/ \E p \in Pins, n \in 0..6 : IntoAfOutputDrain(p, n)
    \/ \E p \in Pins : IntoOutput(p)
    \/ \E p \in Pins : IntoOpenDrain(p)
    \/ \E speed \in Speeds : I2cNew(speed)

SpecGpio == InitGpio /\ [][NextGpio]_vars

\* The state right after PORTE.split(): the caller holds every pin as a typed
\* Input<Floating> value, the registers are at their reset values.
InitPin ==
    /\ NoCall
    /\ NoPinIo
    /\ NoUart
    /\ regs = PowerOnRegs
    /\ pcr = [p \in Pins |-> 0]
    /\ pddr = 0
    /\ tag = [p \in Pins |-> InputFloating]
    /\ held = [p \in Pins |-> "caller"]
    /\ gates = {"porte"}
    /\ built = FALSE

\* Each pin value may be held by a different execution context (Pin is Send
\* and Sync): every operation below is one step, and the steps of the
\* holders of different pins interleave in every order.
NextPin ==
    \/ \E p \in Pins : IntoOutput(p)
    \/ \E p \in Pins : IntoOpenDrain(p)
    \/ \E p \in Pins : Downgrade(p)
    \/ \E p \in Pins : SetHigh(p)
    \/ \E p \in Pins : SetLow(p)
    \/ \E p \in Pins, l \in BOOLEAN : ExtLevel(p, l)

SpecPin == InitPin /\ [][NextPin]_vars

\* ----------------------------------------------------------------- uart
\* The module clock the divisor is derived from, in Hz.
UartClock == 20971520

\* Config::new(baudrate, parity, word_length, stop_bits), baudrate a u32.
\* 150 baud needs a divisor wider than 13 bits; 16 * 268435456 is 2^32.
Bauds == {0, 150, 9600, 115200, 268435456, 268445056}
Configs ==
    [baudrate : Bauds, parity : {"None", "Even", "Odd"},
     word_length : {"DataBits8", "DataBits9"}, stop_bits : {"Stop1", "Stop2"}]

\* Whether the build checks integer overflow (debug) or wraps (release).
Builds == {"debug", "release"}

\* baudrate.0 * 16 on u32: the product modulo 2^32, and whether it overflowed.
U32Mul16(b) == [overflow |-> b >= 2 ^ 28, value |-> (b % (2 ^ 28)) * 16]

\* The order of the checks with the framing error tested first.
ReadOutcomeFramingFirst(s) ==
    IF s.fe THEN "Framing"
    ELSE IF s.orf THEN "Overrun"
    ELSE IF s.nf THEN "Noise"
    ELSE IF s.pf THEN "Parity"
    ELSE IF s.rdrf THEN "Ok"
    ELSE "WouldBlock"

\* The if-chain of read() over the S1 value it read.
ReadOutcome(s) ==
    IF s.orf THEN "Overrun"
    ELSE IF s.fe THEN "Framing"
    ELSE IF s.nf THEN "Noise"
    ELSE IF s.pf THEN "Parity"
    ELSE IF s.rdrf THEN "Ok"
    ELSE "WouldBlock"

\* uart.d.read() after S1 was read with RDRF set: returns the received byte
\* and clears RDRF.
DRead(u) == [bits |-> u.d, regs |-> [u EXCEPT !.rdrf = FALSE]]

\* Read::read of Rx<UART0> (via = "split") and of Serial<UART0, _, _>
\* (via = "serial").
UartRead(via) ==
    /\ ustat = via
    /\ LET o == ReadOutcome(uart)
       IN  IF o = "Ok"
           THEN /\ uart' = DRead(uart).regs
                /\ uout' = [op |-> "read", res |-> "Ok", val |-> DRead(uart).bits]
           ELSE /\ uart' = uart
                /\ uout' = [op |-> "read", res |-> o, val |-> 0]
    /\ UNCHANGED ustat
    /\ UNCHANGED i2cVars
    /\ UNCHANGED gpioVars

\* Serial::split
UartSplit ==
    /\ ustat = "serial"
    /\ ustat' = "split"
    /\ UNCHANGED <<uart, uout>>
    /\ UNCHANGED i2cVars
    /\ UNCHANGED gpioVars

\* get_real_baudrate: (20_971_520 / (baudrate.0 * 16)) + 1 on u32. The
\* multiplication panics on overflow in a build that checks it and wraps
\* otherwise; a division by zero panics in every build.
GetRealBaudrate(b, build) ==
    LET m == U32Mul16(b)
    IN  IF m.overflow /\ build = "debug" THEN [panic |-> TRUE, value |-> 0]
        ELSE IF m.value = 0 THEN [panic |-> TRUE, value |-> 0]
        ELSE [panic |-> FALSE, value |-> (UartClock \div m.value) + 1]

\* ((baudrate & 0x1F00) >> 8) as u8 and (baudrate & 0xFF) as u8
BaudrateHigh(v) == (v \div 256) % 32
BaudrateLow(v) == v % 256

\* Serial::uart0(uart, pins, config, sim): builds the value and configures
\* the port. A panic inside configure leaves the port with the transmitter
\* and the receiver disabled.
Configure(config, build) ==
    /\ ustat = "none"
    /\ gates' = SetGate(gates, "uart0")
    /\ LET off == [uart EXCEPT !.te = FALSE, !.re = FALSE]
           r == GetRealBaudrate(config.baudrate, build)
       IN  IF r.panic
           THEN /\ uart' = off
                /\ ustat' = "panicked"
                /\ uout' = [op |-> "configure", res |-> "panic", val |-> 0]
           ELSE /\ uart' = [off EXCEPT !.sbrh = BaudrateHigh(r.value),
                                        !.sbns = (config.stop_bits = "Stop2"),
                                        !.sbrl = BaudrateLow(r.value),
                                        !.pe = (config.parity # "None"),
                                        !.pt = (config.parity = "Odd"),
                                        !.m = (config.word_length = "DataBits9"),
                                        !.te = TRUE, !.re = TRUE]
                /\ ustat' = "serial"
                /\ uout' = [op |-> "configure", res |-> "ok", val |-> r.value]
    /\ UNCHANGED <<pcr, pddr, tag, held, built>>
    /\ UNCHANGED pinVars
    /\ UNCHANGED i2cVars

\* A character arrives while the receiver is enabled: it fills the receive
\* buffer and sets RDRF with the error flags of the character, or, if the
\* buffer is still full, is lost and sets OR.
HwReceive(b, errs) ==
    /\ uart.re
    /\ uart' = IF uart.rdrf
               THEN [uart EXCEPT !.orf = TRUE]
               ELSE [uart EXCEPT !.rdrf = TRUE, !.d = b,
                                 !.fe = @ \/ "fe" \in errs,
                                 !.nf = @ \/ "nf" \in errs,
                                 !.pf = @ \/ "pf" \in errs]
    /\ UNCHANGED <<ustat, uout>>
    /\ UNCHANGED i2cVars
    /\ UNCHANGED gpioVars

\* Power-on, no peripheral constructed.
InitUart == InitGpio

NextUart ==
    \/ \E config \in Configs, build \in Builds : Configure(config, build)
    \/ UartSplit
    \/ \E via \in {"serial", "split"} : UartRead(via)
    \/ \E b \in ByteVals, errs \in SUBSET {"fe", "nf", "pf"} : HwReceive(b, errs)

SpecUart == InitUart /\ [][NextUart]_vars

\* ------------------------------------------------------------------ boot
\* Register contents I2c::new may find: the block is handed over as it is,
\* with any flag latched, any mode bit set and any configuration left behind
\* by earlier code (Dirty: every configuration field differs from its reset
\* value).
Dirty == [c1etc |-> 1, fltcfg |-> 1, a1 |-> 42, mult |-> 2, icr |-> 31, c2 |-> 128, ra |-> 6]
Clean == [c1etc |-> PowerOnRegs.c1etc, fltcfg |-> PowerOnRegs.fltcfg,
          a1 |-> PowerOnRegs.a1, mult |-> PowerOnRegs.mult,
          icr |-> PowerOnRegs.icr, c2 |-> PowerOnRegs.c2, ra |-> PowerOnRegs.ra]
PriorRegs ==
    {[iicen |-> en, mst |-> m, tx |-> m, txak |-> FALSE,
      tcf |-> TRUE, busy |-> m, arbl |-> al, iicif |-> fl, rxak |-> na,
      startf |-> sf, stopf |-> pf,
      c1etc |-> c.c1etc, fltcfg |-> c.fltcfg, a1 |-> c.a1, mult |-> c.mult,
      icr |-> c.icr, c2 |-> c.c2, ra |-> c.ra] :
        en \in BOOLEAN, m \in BOOLEAN, al \in BOOLEAN, fl \in BOOLEAN,
        na \in BOOLEAN, sf \in BOOLEAN, pf \in BOOLEAN, c \in {Clean, Dirty}}

\* The other banks of the gpio! table.
OtherBanks == {"porta", "portb", "portc", "portd"}

\* GpioExt::split of another bank (its pins are not followed here).
SplitOther(b) ==
    /\ b \notin gates
    /\ gates' = SetGate(gates, b)
    /\ UNCHANGED <<pcr, pddr, tag, held, built>>
    /\ UNCHANGED pinVars
    /\ UNCHANGED i2cVars
    /\ UNCHANGED uartVars

\* Start-up: no bank split, the I2C0 block in any prior state.
InitBoot ==
    /\ NoCall
    /\ NoPinIo
    /\ NoUart
    /\ regs \in PriorRegs
    /\ pcr = [p \in Pins |-> 0]
    /\ pddr = 0
    /\ tag = [p \in Pins |-> InputFloating]
    /\ held = [p \in Pins |-> "port"]
    /\ gates = {}
    /\ built = FALSE

NextBoot ==
    \/ \E b \in OtherBanks : SplitOther(b)
    \/ Split
    \/ \E p \in Pins : IntoAfOutputDrain(p, I2cAf)
    \/ \E speed \in Speeds : I2cNew(speed)

SpecBoot == InitBoot /\ [][NextBoot]_vars

\* ======================================================= bus write claims
Returned == pc = "idle" /\ result # "none"
IsError(r) == r \in {"NACK", "ARBITRATION"}

\* C1: when arbitration is lost in the payload phase after byte k of n
\* (k < n), no further byte is written to the data register and write
\* returns Err(ARBITRATION). (Stated for calls in which no byte is refused,
\* so that arbitration loss is the only error of the call.)
C1_ArbitrationAbortsPayload ==
    (arblMark # -1 /\ ~nackSeen) =>
        /\ Len(dlog) = arblMark
        /\ (pc = "idle" => result = "ARBITRATION")

\* C2: when the address byte is not acknowledged, write returns Err(NACK)
\* and has released the bus by then: MST is clear and BUSY reads clear.
C2_AddressNackReleasesBus ==
    (pc = "idle" /\ addrNack /\ ~arblSeen) =>
        (result = "NACK" /\ ~regs.mst /\ ~regs.busy)

\* C3: when payload byte k of n (k < n) is not acknowledged, none of the
\* bytes k+1..n is written to the data register and write returns
\* Err(NACK) (Err(ARBITRATION) can only replace it when arbitration is lost
\* in the same call).
C3_NackAbortsPayload ==
    nackMark # -1 =>
        /\ Len(dlog) = nackMark
        /\ (pc = "idle" => IsError(result))
        /\ (pc = "idle" /\ ~arblSeen => result = "NACK")

C3_Witness ==
    /\ pc = "idle" /\ result = "NACK" /\ ~arblSeen
    /\ nackMark = 2 /\ Len(bytes) = 2 /\ dlog = <<AddrByte(address), bytes[1]>>

\* C4: whenever write returns an error, stop_sequence has cleared MST, TX
\* and TXAK before the return.
C4_ErrorReturnAfterStop ==
    (pc = "idle" /\ IsError(result)) =>
        (stopCleared /\ ~regs.mst /\ ~regs.tx /\ ~regs.txak)

\* The steps of the caller that run check_and_clear_error_flags.
CheckStep ==
    \/ StartCheck1 \/ StartCheck2 \/ WbCheck \/ SbWaitTcf \/ SbWaitIicif
    \/ StopCheck1 \/ StopWaitBusy

\* C5: a status check that reports Arbitration-Lost leaves ARBL cleared, and
\* ARBL reads clear at the moment any write returns.
C5_ArbitrationLostCleared ==
    [][/\ (CheckStep /\ regs.arbl) => ~regs'.arbl
       /\ (pc # "idle" /\ pc' = "idle") => ~regs'.arbl]_vars

C5_Witness == pc = "idle" /\ result = "ARBITRATION" /\ arblSeen /\ ~regs.arbl

\* C6: write(address, []) with no error flag latched or raised writes the
\* address byte, never enters send_byte, runs the stop phase (MST cleared,
\* BUSY seen clear) and returns Ok.
C6_EmptyPayloadWrite ==
    (Returned /\ bytes = <<>> /\ ~arblSeen /\ ~nackSeen) =>
        /\ result = "Ok"
        /\ ~sendEntered
        /\ dlog = <<(2 * address) % 256>>
        /\ stopCleared /\ ~regs.mst /\ ~regs.busy

C6_Witness ==
    /\ Returned /\ bytes = <<>> /\ ~arblSeen /\ ~nackSeen
    /\ result = "Ok" /\ address = 208 /\ dlog = <<160>> /\ ~xfer

\* C7: an error found by start_sequence is what write returns; write does
\* not go on to the address-acknowledge wait.
C7_StartErrorReturned ==
    startErr # "none" =>
        /\ pc \notin ({"wb_wait_iicif"} \cup PayloadPcs)
        /\ (pc = "idle" => result = startErr)

\* ============================================================ pin claims
\* C8: when the bus master is constructed from PE24 and PE25 tagged
\* AlternativeOD<AF5>, the multiplexer field of both pins is 5 and their
\* open-drain enable bit is set.
C8_I2cPinsConfigured ==
    built => \A p \in Pins : Mux(pcr[p]) = I2cAf /\ Ode(pcr[p])

\* C9: after into_af<N>_outputdrain the pin's multiplexer field is N and its
\* open-drain enable bit is set.
C9_AfOutputDrainSetsMux ==
    [][\A p \in Pins, n \in 0..6 :
          IntoAfOutputDrain(p, n) => (Mux(pcr'[p]) = n /\ Ode(pcr'[p]))]_vars

\* C10: after into_alternate_af<N> the pin's multiplexer field is N, every
\* other bit of its control register is as before, and the pin is tagged
\* Alternative<AF N>.
C10_IntoAlternateSetsMuxOnly ==
    [][\A p \in Pins, n \in 0..7 :
          IntoAlternate(p, n) =>
              /\ (pcr'[p] \div 256) % 8 = n
              /\ pcr'[p] % 256 = pcr[p] % 256
              /\ pcr'[p] \div 2048 = pcr[p] \div 2048
              /\ tag'[p] = [kind |-> "Alternative", arg |-> <<"AF", n>>]]_vars

C10_Witness ==
    \E p \in Pins :
        /\ tag[p] = Alternative(3)
        /\ Mux(pcr[p]) = 3
        /\ pcr[p] % 256 = OdPcrBits

\* ================================================ bus write claims, cont.
\* C19: a not-acknowledged address is recoverable: when a write() has
\* returned Err(NACK), a later write() to a device that acknowledges writes
\* its address byte to the data register and returns Ok(()). (Stated for the
\* write() right after the failed one, with every byte of it acknowledged
\* and no arbitration lost.)
C19_NackIsRecoverable ==
    (Returned /\ prevResult = "NACK" /\ ~refused /\ ~arblSeen)
    => /\ result = "Ok"
       /\ dlog # <<>>
       /\ dlog[1] = AddrByte(address)

\* C20: write returns Ok(()) only from the busy poll of stop_sequence, after
\* MST, TX and TXAK were cleared, in an iteration that re-checked the error
\* flags, found none set and read BUSY clear; an iteration that finds an
\* error flag set leaves the poll with an error.
C20_OkOnlyAfterStop ==
    [][/\ (pc # "idle" /\ pc' = "idle" /\ result' = "Ok")
          => /\ pc = "st_wait_busy"
             /\ stopCleared
             /\ ~regs.mst /\ ~regs.tx /\ ~regs.txak
             /\ ~regs'.mst /\ ~regs'.tx /\ ~regs'.txak
             /\ ~regs.arbl /\ ~regs.rxak
             /\ ~regs.busy
       /\ (StopWaitBusy /\ (regs.arbl \/ regs.rxak))
          => (pc' = "idle" /\ IsError(result'))]_vars
C20_Witness ==
    /\ Returned /\ result = "Ok"
    /\ stopCleared /\ ~regs.mst /\ ~regs.busy
    /\ Len(bytes) = 2 /\ Len(dlog) = 3


\* ====================================================== pin output claims
\* C11: after any sequence of into_output / into_open_drain transitions on
\* pins of one bank, every pin whose tag is Output has its bit set in the
\* bank's direction register; converting a second pin does not revert the
\* direction bit of a pin converted earlier.
C11_OutputPinsHaveDirectionBit ==
    \A p \in Pins : tag[p].kind = "Output" => Bit(pddr, p) = 1

\* C12: into_open_drain on a pin sets the open-drain enable bit of that
\* pin's control register and yields the pin tagged Output<OpenDrain>.
C12_IntoOpenDrainSetsOde ==
    [][\A p \in Pins :
          IntoOpenDrain(p) => (Ode(pcr'[p]) /\ tag'[p] = OutputOpenDrain)]_vars

\* C13: set_low() on an Output pin followed immediately by is_set_low() on
\* the same pin returns true, and is_set_high() returns false, whatever the
\* levels of the other pins of the bank. (Stated for a push-pull pin whose
\* direction bit is set, so that the pin does drive the level it was given.)
C13_SetLowReadsBackLow ==
    [][\A p \in Pins :
          (SetLow(p) /\ tag[p] = OutputFloating /\ Bit(pddr, p) = 1)
          => /\ IsSetLow(Pdir', PinIndex(p))
             /\ ~IsSetHigh(Pdir', PinIndex(p))]_vars

\* C14: set_high() on an Output pin followed immediately by is_set_high() on
\* the same pin returns true, whatever the levels of the other pins of the
\* bank. (Stated for a push-pull Output pin.)
C14_SetHighReadsBackHigh ==
    [][\A p \in Pins :
          (SetHigh(p) /\ tag[p] = OutputFloating)
          => IsSetHigh(Pdir', PinIndex(p))]_vars

\* C15: for two erased output pins of one bank with bit indices i # j,
\* driving pin i with set_high or set_low changes neither the driven level
\* of pin j nor what pin j's readback returns.
C15_ErasedPinsIndependent ==
    [][\A i \in Pins, j \in Pins :
          ( /\ i # j
            /\ ~Typed(i) /\ ~Typed(j)
            /\ tag[i].kind = "Output" /\ tag[j].kind = "Output"
            /\ (SetHigh(i) \/ SetLow(i)) )
          => /\ Bit(pdor', PinIndex(j)) = Bit(pdor, PinIndex(j))
             /\ IsSetLow(Pdir', PinIndex(j)) = IsSetLow(Pdir, PinIndex(j))]_vars

\* C16: set_high() is idempotent: a set_high() on a pin whose last write was
\* already set_high() leaves the pin's output bit high and the bank's data
\* output and direction registers as they were after the first call.
C16_SetHighIdempotent ==
    [][\A p \in Pins :
          (SetHigh(p) /\ wrote[p] \in {"high", "high_again"})
          => /\ Bit(pdor', PinIndex(p)) = 1
             /\ pdor' = pdor
             /\ pddr' = pddr]_vars
C16_Witness ==
    \E p \in Pins : wrote[p] = "high_again" /\ Bit(pdor, p) = 1

\* C17: when the holders of different pins of one bank issue set_high and
\* set_low without coordination, then after every interleaving each written
\* bit of the data output register holds the level last written to it and
\* every bit never written keeps its reset value.
C17_InterleavedWritesKeepLastLevel ==
    /\ \A p \in Pins :
          Bit(pdor, p) = IF wrote[p] \in {"high", "high_again"} THEN 1 ELSE 0
    /\ pdor = Bit(pdor, SclPin) * OneShl(SclPin) + Bit(pdor, SdaPin) * OneShl(SdaPin)
C17_Witness ==
    /\ wrote[SclPin] = "low" /\ wrote[SdaPin] = "high_again"
    /\ ~Typed(SclPin) /\ ~Typed(SdaPin)
    /\ pdor = OneShl(SdaPin)

\* C18: is_low() on a pin with bit index i returns true exactly when bit i
\* of the bank's data input register is 0, whatever the other bits of that
\* register, and is_high() always returns the negation of is_low().
C18_IsLowReadsOwnBit ==
    \A p \in Pins :
        (Owned(p) /\ tag[p].kind = "Input")
        => /\ IsLow(Pdir, PinIndex(p)) <=> (Bit(Pdir, PinIndex(p)) = 0)
           /\ IsHigh(Pdir, PinIndex(p)) <=> ~IsLow(Pdir, PinIndex(p))

\* ================================================ bus write claims, cont.
\* C21: in a write() in which no error flag is latched or raised, the values
\* written to the data register are exactly (2 * address) mod 256 followed
\* by the payload bytes in caller order, each once; the address value has
\* its low bit clear and is written with TCF set, no byte in flight and MST
\* and TX set; each payload byte is written with TCF set and no byte in
\* flight, after exactly the bytes before it.
C21_DataRegisterSequence ==
    [][/\ (StartWriteAddr /\ ~arblSeen /\ ~nackSeen)
          => /\ regs.tcf /\ ~xfer
             /\ regs.mst /\ regs.tx
             /\ dlog = <<>>
             /\ dlog' = <<(2 * address) % 256>>
             /\ dlog'[1] % 2 = 0
       /\ (SbWriteData /\ ~arblSeen /\ ~nackSeen)
          => /\ regs.tcf /\ ~xfer
             /\ dlog = <<(2 * address) % 256>> \o SubSeq(bytes, 1, idx - 1)
             /\ dlog' = Append(dlog, bytes[idx])
       /\ (pc # "idle" /\ pc' = "idle" /\ ~arblSeen' /\ ~nackSeen')
          => /\ result' = "Ok"
             /\ dlog' = <<(2 * address) % 256>> \o bytes]_vars
C21_Witness ==
    /\ Returned /\ result = "Ok" /\ ~arblSeen /\ ~nackSeen
    /\ bytes = <<165, 60>> /\ address = 208
    /\ dlog = <<160, 165, 60>>

\* C22: in every poll loop of write(), an error flag that appears while the
\* awaited flag has not changed ends the wait and write() returns that
\* error. (The error compared is the first one raised in such a wait; when
\* the other kind of error also occurs in the call, any error is accepted.)
C22_PollErrorIsReturned ==
    (Returned /\ pollErr # "none")
    => /\ IsError(result)
       /\ (pollErr = "ARBITRATION" /\ ~nackSeen) => result = "ARBITRATION"
       /\ (pollErr = "NACK" /\ ~arblSeen) => result = "NACK"

\* C23: a write() that has returned has returned Ok(()) if no error flag was
\* raised during the call and an error otherwise.
C23_ResultMatchesFlags ==
    Returned => (result = "Ok" <=> (~arblSeen /\ ~nackSeen))

\* C28: each write-1-to-clear the driver performs on the status register
\* clears only the flag it targets: clearing IICIF in send_byte leaves a
\* latched ARBL set, and clearing ARBL in check_and_clear_error_flags leaves
\* a pending IICIF set.
C28_ClearsOnlyTargetedFlag ==
    [][/\ ((SbClear1 \/ SbClear2) /\ regs.arbl) => regs'.arbl
       /\ (CheckStep /\ regs.arbl /\ regs.iicif) => regs'.iicif]_vars

C27_SplitFrame ==
    [][Split =>
         /\ "porte" \in gates'
         /\ gates' \ {"porte"} = gates \ {"porte"}
         /\ DOMAIN SplitParts = 0..31 /\ Cardinality(DOMAIN SplitParts) = 32
         /\ \A p \in DOMAIN SplitParts : SplitParts[p] = InputFloating
         /\ \A p \in Pins : tag'[p] = InputFloating /\ held'[p] = "caller"
         /\ SetGate(gates', "porte") = gates'
         /\ UNCHANGED <<pcr, pddr, regs>>]_vars

\* Bank E was split while the gates of banks A and C were enabled.
C27_Witness ==
    /\ gates = {"porta", "portc", "porte"}
    /\ \A p \in Pins : held[p] = "caller" /\ tag[p] = InputFloating

\* =============================================================== pin claims, cont.
\* C25: enable() sets the MUX field of the pin's own control register to 1
\* and disable() sets it to 0; the other fields of that register, the other
\* pins' control registers, the bank's direction and data registers, the
\* mode tags and the ownership of the pins are unchanged.
C25_EnableDisableFrame ==
    [][\A p \in Pins :
         /\ Enable(p) => Mux(pcr'[p]) = 1
         /\ Disable(p) => Mux(pcr'[p]) = 0
         /\ (Enable(p) \/ Disable(p))
            => /\ NonMux(pcr'[p]) = NonMux(pcr[p])
               /\ \A q \in Pins \ {p} : pcr'[q] = pcr[q]
               /\ UNCHANGED <<pddr, pdor, tag, held, pinI, gates, regs>>]_vars

\* PE24 was enabled and PE25 disabled, each holding other control bits and a
\* mode tag that names another function.
C25_Witness ==
    /\ pcr[SclPin] = OdPcrBits + 256 /\ tag[SclPin] = AlternativeOD(I2cAf)
    /\ pcr[SdaPin] = OdPcrBits /\ tag[SdaPin] = Alternative(3)

\* C26: whatever the bank's registers hold, each digital operation on an
\* erased pin value (set_high, set_low, is_set_high, is_set_low, is_low,
\* is_high) writes the data output register as, and returns what, the same
\* operation on the typed pin of the same bank and index does.
C26_ErasedEqualsTyped ==
    \A p \in Pins :
        ~Typed(p) =>
            /\ GpioSetHigh(pdor, PinIndex(p)) = GpioSetHigh(pdor, p)
            /\ GpioSetLow(pdor, PinIndex(p)) = GpioSetLow(pdor, p)
            /\ IsSetHigh(Pdir, PinIndex(p)) = IsSetHigh(Pdir, p)
            /\ IsSetLow(Pdir, PinIndex(p)) = IsSetLow(Pdir, p)
            /\ IsLow(Pdir, PinIndex(p)) = IsLow(Pdir, p)
            /\ IsHigh(Pdir, PinIndex(p)) = IsHigh(Pdir, p)

\* PE24 is an erased output that was driven low after PE25 was driven high:
\* the two pins' bits differ in the data output register.
C26_Witness ==
    /\ ~Typed(SclPin) /\ tag[SclPin].kind = "Output" /\ wrote[SclPin] = "low"
    /\ Bit(pdor, SclPin) = 0 /\ Bit(pdor, SdaPin) = 1

\* =========================================================== uart claims
\* C29: read() returns a data byte exactly when none of OR, FE, NF, PF is set
\* and RDRF is set, and then the byte is the one in D; otherwise it returns
\* exactly one of Overrun, Framing, Noise, Parity, WouldBlock, the first in
\* that order whose condition holds, and does not read D: the registers,
\* the pending byte included, are as before.
C29_ReadPrecedence ==
    [][\A via \in {"serial", "split"} :
         UartRead(via) =>
           LET err == uart.orf \/ uart.fe \/ uart.nf \/ uart.pf
               res == uout'.res
           IN  /\ res \in {"Ok", "Overrun", "Framing", "Noise", "Parity", "WouldBlock"}
               /\ res = "Ok" <=> (~err /\ uart.rdrf)
               /\ res = "Ok" => /\ uout'.val = uart.d
                                /\ uart' = [uart EXCEPT !.rdrf = FALSE]
               /\ res = "Overrun" <=> uart.orf
               /\ res = "Framing" <=> (~uart.orf /\ uart.fe)
               /\ res = "Noise" <=> (~uart.orf /\ ~uart.fe /\ uart.nf)
               /\ res = "Parity" <=> (~uart.orf /\ ~uart.fe /\ ~uart.nf /\ uart.pf)
               /\ res = "WouldBlock" <=> (~err /\ ~uart.rdrf)
               /\ res # "Ok" => uart' = uart]_vars

\* A read returned Framing while OR was clear, noise and parity errors were
\* also flagged and a byte was pending: the byte is still pending.
C29_Witness ==
    /\ uout.op = "read" /\ uout.res = "Framing"
    /\ ~uart.orf /\ uart.fe /\ uart.nf /\ uart.pf /\ uart.rdrf /\ uart.d = 165

\* C30: for every baud rate b of type u32, configure computes
\* floor(20971520 / (16 * b)) + 1 without overflow or division by zero, and
\* the 13-bit divisor it writes (high 5 bits in BDH, low 8 bits in BDL) is
\* that value. (16 * b is kept out of the formula: floor(x / (16 * b)) is
\* floor(floor(x / 16) / b).)
C30_DivisorWritten ==
    [][\A config \in Configs, build \in Builds :
         Configure(config, build) =>
           /\ ustat' # "panicked"
           /\ config.baudrate > 0
           /\ uart'.sbrh * 256 + uart'.sbrl
                = ((UartClock \div 16) \div config.baudrate) + 1]_vars
====
